---- MODULE Spec2Model ----
(***************************************************************************)
(* Model of predict_menstrual_phases (backend/scripts/garmin_data_collector *)
(* .py): the cycle-phase estimation that turns Garmin cycle summaries and  *)
(* the dates of a user's hr_data rows into one menstrual_phases row per    *)
(* date.                                                                   *)
(*                                                                         *)
(* A datetime is modelled by its proleptic Gregorian ordinal (a day        *)
(* number), a 'YYYY-MM-DD' string by the triple <<year, month, day>>, and  *)
(* an optional value by a sequence of length at most one (<<>> is None).   *)
(***************************************************************************)
EXTENDS Integers, Sequences, FiniteSets, TLC

\* ---------------------------------------------------------------- bounds
MaxCycles == 3      \* most cycle summaries in one menstrual_data
MaxDates == 2       \* most hr_data rows of the user
MaxRuns == 2        \* most runs of the storage step that are started

\* ------------------------------------------------------ program constants
default_cycle_length == 28
min_cycle_length == 15
MinPlausibleGap == 15
MaxPlausibleGap == 45
DefaultPeriodLength == 5
FertileWindowLength == 7
MinLuteal == 10
MaxLuteal == 16

None == <<>>
Some(x) == <<x>>
user_id == "u1"

\* --------------------------------------------------------------- calendar
Years == 2022..2026

IsLeap(y) == (y % 4 = 0) /\ ((y % 100 # 0) \/ (y % 400 = 0))

DaysInMonth(y, m) ==
    IF m = 2 THEN (IF IsLeap(y) THEN 29 ELSE 28)
    ELSE IF m \in {4, 6, 9, 11} THEN 30 ELSE 31

DaysBeforeYear(y) ==
    (y - 1) * 365 + ((y - 1) \div 4) - ((y - 1) \div 100) + ((y - 1) \div 400)

RECURSIVE DaysBeforeMonth(_, _)
DaysBeforeMonth(y, m) ==
    IF m = 1 THEN 0 ELSE DaysBeforeMonth(y, m - 1) + DaysInMonth(y, m - 1)

\* datetime.strptime(s, '%Y-%m-%d'): the date string as a day number
strptime(s) == DaysBeforeYear(s[1]) + DaysBeforeMonth(s[1], s[2]) + s[3]

\* d.strftime('%Y-%m-%d'): the day number as a date string
strftime(n) ==
    LET y == CHOOSE yy \in Years :
                 DaysBeforeYear(yy) < n /\ n <= DaysBeforeYear(yy + 1)
        r == n - DaysBeforeYear(y)
        m == CHOOSE mm \in 1..12 :
                 /\ DaysBeforeMonth(y, mm) < r
                 /\ r <= DaysBeforeMonth(y, mm) + DaysInMonth(y, mm)
    IN  <<y, m, r - DaysBeforeMonth(y, m)>>

\* ---------------------------------------------------------- list helpers
Max(a, b) == IF a >= b THEN a ELSE b
Min(a, b) == IF a <= b THEN a ELSE b

RECURSIVE SumSeq(_)
SumSeq(s) == IF s = <<>> THEN 0 ELSE Head(s) + SumSeq(Tail(s))

\* list.sort() on datetimes: insertion into an ascending list
RECURSIVE InsertSorted(_, _)
InsertSorted(x, s) ==
    IF s = <<>> THEN <<x>>
    ELSE IF x <= Head(s) THEN <<x>> \o s
    ELSE <<Head(s)>> \o InsertSorted(x, Tail(s))

RECURSIVE PySort(_)
PySort(s) == IF s = <<>> THEN <<>> ELSE InsertSorted(Head(s), PySort(Tail(s)))

\* seq[j] of Python: 0-based, a negative j counts from the end
PyAt(s, j) == IF j < 0 THEN s[Len(s) + j + 1] ELSE s[j + 1]

\* list.index(x): 0-based position of the first occurrence
PyIndexOf(s, x) == (CHOOSE p \in 1..Len(s) : s[p] = x /\ \A q \in 1..(p - 1) : s[q] # x) - 1

InList(s, x) == \E p \in 1..Len(s) : s[p] = x

\* dict.get(key, default)
DictGet(d, key, default) == IF key \in DOMAIN d THEN d[key] ELSE default

\* bool(x) of an optional integer: None and 0 are falsy
TruthyInt(opt) == opt # None /\ opt[1] # 0

\* bool(x) of an optional string: None and '' are falsy
TruthyStr(opt) == opt # None /\ opt[1] # <<>>

\* the parse loop with `not period_length` in place of `is None`: a period
\* length of 0 counts as missing
RECURSIVE ParseCycles_ZeroIsMissing(_, _)
ParseCycles_ZeroIsMissing(summaries, acc) ==
    IF summaries = <<>> THEN acc
    ELSE LET cycle == Head(summaries)
             start_date == strptime(cycle.startDate[1])
             hint == <<cycle.fertileWindowStart[1], cycle.lengthOfFertileWindow[1]>>
         IN  IF ~TruthyStr(cycle.startDate) \/ ~TruthyInt(cycle.periodLength)
             THEN ParseCycles_ZeroIsMissing(Tail(summaries), acc)
             ELSE ParseCycles_ZeroIsMissing(Tail(summaries),
                    [cycle_starts |-> Append(acc.cycle_starts, start_date),
                     period_lengths |->
                        [k \in DOMAIN acc.period_lengths \cup {start_date} |->
                            IF k = start_date THEN cycle.periodLength[1]
                            ELSE acc.period_lengths[k]],
                     fertile_windows |->
                        IF TruthyInt(cycle.fertileWindowStart)
                           /\ TruthyInt(cycle.lengthOfFertileWindow)
                        THEN [k \in DOMAIN acc.fertile_windows \cup {start_date} |->
                                IF k = start_date THEN hint
                                ELSE acc.fertile_windows[k]]
                        ELSE acc.fertile_windows])

\* ------------------------------------------------ Step 1: parse summaries
\* the loop over cycle_summaries: the starts in input order, and the two
\* dicts keyed by start (a later record with the same start overwrites)
RECURSIVE ParseCycles(_, _)
ParseCycles(summaries, acc) ==
    IF summaries = <<>> THEN acc
    ELSE LET cycle == Head(summaries)
             start_date == strptime(cycle.startDate[1])
             hint == <<cycle.fertileWindowStart[1], cycle.lengthOfFertileWindow[1]>>
         IN  IF ~TruthyStr(cycle.startDate) \/ cycle.periodLength = None
             THEN ParseCycles(Tail(summaries), acc)
             ELSE ParseCycles(Tail(summaries),
                    [cycle_starts |-> Append(acc.cycle_starts, start_date),
                     period_lengths |->
                        [k \in DOMAIN acc.period_lengths \cup {start_date} |->
                            IF k = start_date THEN cycle.periodLength[1]
                            ELSE acc.period_lengths[k]],
                     fertile_windows |->
                        IF TruthyInt(cycle.fertileWindowStart)
                           /\ TruthyInt(cycle.lengthOfFertileWindow)
                        THEN [k \in DOMAIN acc.fertile_windows \cup {start_date} |->
                                IF k = start_date THEN hint
                                ELSE acc.fertile_windows[k]]
                        ELSE acc.fertile_windows])

EmptyParse == [cycle_starts |-> <<>>, period_lengths |-> <<>>, fertile_windows |-> <<>>]

\* -------------------------------------- Step 2: filter overlapping starts
\* the walk without the replacement: every start is kept
KeepOrReplace_AlwaysAppend(filtered, start) == Append(filtered, start)

\* the walk with the earlier of two close starts winning
KeepOrReplace_EarlierWins(filtered, start) ==
    IF start - filtered[Len(filtered)] >= min_cycle_length
    THEN Append(filtered, start)
    ELSE filtered

\* one iteration of the walk: append a start that is min_cycle_length or
\* more days after the last kept one, else replace the last kept one
KeepOrReplace(filtered, start) ==
    IF start - filtered[Len(filtered)] >= min_cycle_length
    THEN Append(filtered, start)
    ELSE [filtered EXCEPT ![Len(filtered)] = start]

RECURSIVE FilterWalk(_, _, _)
FilterWalk(sorted, i, filtered) ==
    IF i > Len(sorted) THEN filtered
    ELSE FilterWalk(sorted, i + 1, KeepOrReplace(filtered, sorted[i]))

\* lines 118-133: sort, then the walk seeded with the first start
Normalize(starts) == LET sorted == PySort(starts) IN FilterWalk(sorted, 2, <<sorted[1]>>)

\* ------------------------------------------ Step 3: estimate cycle length
RECURSIVE PlausibleGaps(_, _)
PlausibleGaps(starts, i) ==
    IF i >= Len(starts) THEN <<>>
    ELSE LET cycle_length == starts[i + 1] - starts[i]
         IN  (IF MinPlausibleGap <= cycle_length /\ cycle_length <= MaxPlausibleGap
              THEN <<cycle_length>> ELSE <<>>) \o PlausibleGaps(starts, i + 1)

\* the estimate with the mean rounded up instead of truncated
EstimateCycleLength_RoundUp(starts) ==
    LET cycle_lengths == PlausibleGaps(starts, 1)
    IN  IF cycle_lengths # <<>>
        THEN (SumSeq(cycle_lengths) + Len(cycle_lengths) - 1) \div Len(cycle_lengths)
        ELSE default_cycle_length

\* int(np.mean(cycle_lengths)), or the default when no gap qualifies
EstimateCycleLength(starts) ==
    LET cycle_lengths == PlausibleGaps(starts, 1)
    IN  IF cycle_lengths # <<>>
        THEN SumSeq(cycle_lengths) \div Len(cycle_lengths)
        ELSE default_cycle_length

\* ----------------------------- Step 4: map cycle starts to date indices
\* for each start the 0-based index of the first date on or after it; a
\* start with no such date contributes nothing
RECURSIVE MapStarts(_, _, _)
MapStarts(starts, ds, p) ==
    IF p > Len(starts) THEN <<>>
    ELSE LET hits == {i \in 1..Len(ds) : ds[i] >= starts[p]}
         IN  (IF hits = {} THEN <<>>
              ELSE <<(CHOOSE i \in hits : \A j \in hits : i <= j) - 1>>)
             \o MapStarts(starts, ds, p + 1)

\* ------------------------------------ Step 5: cycle day, length and phases
\* lines 166-173: the last (start, index) pair, in list order, whose start
\* is on or before the date; the scan stops at the first later start
RECURSIVE FindCycleStart(_, _, _, _, _)
FindCycleStart(date, starts, indices, p, found) ==
    IF p > Min(Len(starts), Len(indices)) THEN found
    ELSE IF date >= starts[p]
         THEN FindCycleStart(date, starts, indices, p + 1, Some(<<starts[p], indices[p]>>))
         ELSE found

\* the backward projection without the extra cycle
GoverningCycle_NoExtraCycle(date, starts, indices, estimated) ==
    LET found == FindCycleStart(date, starts, indices, 1, None)
        days_before_first == starts[1] - date
        cycles_before == days_before_first \div estimated
    IN  IF found # None
        THEN [cycle_start |-> found[1][1], cycle_start_idx |-> found[1][2]]
        ELSE [cycle_start |-> starts[1] - cycles_before * estimated, cycle_start_idx |-> 0]

\* lines 175-181: the start and index that govern the date, projected
\* backward by whole estimated cycles when the date precedes the first start
GoverningCycle(date, starts, indices, estimated) ==
    LET found == FindCycleStart(date, starts, indices, 1, None)
        days_before_first == starts[1] - date
        cycles_before == (days_before_first \div estimated) + 1
    IN  IF found # None
        THEN [cycle_start |-> found[1][1], cycle_start_idx |-> found[1][2]]
        ELSE [cycle_start |-> starts[1] - cycles_before * estimated, cycle_start_idx |-> 0]

\* lines 186-191: the length of the cycle that starts at cycle_start
CurrentCycleLength(cycle_start, cycle_start_idx, indices, ds, estimated) ==
    LET next_cycle_idx == IF InList(indices, cycle_start_idx)
                          THEN PyIndexOf(indices, cycle_start_idx) + 1
                          ELSE -1
    IN  IF next_cycle_idx < Len(indices)
        THEN PyAt(ds, PyAt(indices, next_cycle_idx)) - cycle_start
        ELSE estimated

\* line 211: constrain the luteal duration to 10-16 days
ClampLuteal(luteal_duration) == Max(MinLuteal, Min(MaxLuteal, luteal_duration))

\* boundaries whose estimated window starts two days before the midpoint
PhaseBoundaries_LateWindow(menstrual_duration, current_cycle_length, hint) ==
    LET ovulatory_duration == IF hint # None THEN hint[1][2] ELSE FertileWindowLength
        ovulatory_midpoint == (current_cycle_length * 14) \div 28
        estimated_start == Max(menstrual_duration + 1, ovulatory_midpoint - 2)
        ovulatory_start1 ==
            IF hint # None THEN hint[1][1]
            ELSE IF estimated_start + ovulatory_duration - 1 > current_cycle_length
                 THEN Max(menstrual_duration + 1,
                          current_cycle_length - ovulatory_duration + 1)
                 ELSE estimated_start
        luteal_duration ==
            ClampLuteal(current_cycle_length - (ovulatory_start1 + ovulatory_duration - 1))
        ovulatory_start2 ==
            Max(menstrual_duration + 1,
                current_cycle_length - luteal_duration - ovulatory_duration + 1)
        follicular_duration ==
            IF ovulatory_start2 - menstrual_duration - 1 < 1 THEN 1
            ELSE ovulatory_start2 - menstrual_duration - 1
        menstrual_end == menstrual_duration
        follicular_end == menstrual_end + follicular_duration
    IN  [menstrual_end |-> menstrual_end,
         follicular_end |-> follicular_end,
         ovulatory_end |-> follicular_end + ovulatory_duration,
         luteal_end |-> current_cycle_length]

\* lines 193-224: the phase boundaries of a cycle; hint is None or
\* Some(<<fertile window start, fertile window length>>)
PhaseBoundaries(menstrual_duration, current_cycle_length, hint) ==
    LET ovulatory_duration == IF hint # None THEN hint[1][2] ELSE FertileWindowLength
        ovulatory_midpoint == (current_cycle_length * 14) \div 28
        estimated_start == Max(menstrual_duration + 1, ovulatory_midpoint - 3)
        ovulatory_start1 ==
            IF hint # None THEN hint[1][1]
            ELSE IF estimated_start + ovulatory_duration - 1 > current_cycle_length
                 THEN Max(menstrual_duration + 1,
                          current_cycle_length - ovulatory_duration + 1)
                 ELSE estimated_start
        luteal_duration ==
            ClampLuteal(current_cycle_length - (ovulatory_start1 + ovulatory_duration - 1))
        ovulatory_start2 ==
            Max(menstrual_duration + 1,
                current_cycle_length - luteal_duration - ovulatory_duration + 1)
        follicular_duration ==
            IF ovulatory_start2 - menstrual_duration - 1 < 1 THEN 1
            ELSE ovulatory_start2 - menstrual_duration - 1
        menstrual_end == menstrual_duration
        follicular_end == menstrual_end + follicular_duration
    IN  [menstrual_end |-> menstrual_end,
         follicular_end |-> follicular_end,
         ovulatory_end |-> follicular_end + ovulatory_duration,
         luteal_end |-> current_cycle_length]

\* the fold without the zero-remainder case
WrapCycleDay_NoZeroMap(cycle_day, current_cycle_length) ==
    cycle_day % current_cycle_length

\* line 227: fold the cycle day into the cycle, a zero remainder becoming
\* the cycle length (the modulus is at least 1 here)
WrapCycleDay(cycle_day, current_cycle_length) ==
    IF cycle_day % current_cycle_length # 0
    THEN cycle_day % current_cycle_length
    ELSE current_cycle_length

\* a classifier that names the follicular range Ovulatory and the ovulatory
\* range Follicular
ClassifyDay_PhasesSwapped(cycle_day_within_phase, b) ==
    IF 1 <= cycle_day_within_phase /\ cycle_day_within_phase <= b.menstrual_end
    THEN "Menstrual"
    ELSE IF b.menstrual_end < cycle_day_within_phase
            /\ cycle_day_within_phase <= b.follicular_end
    THEN "Ovulatory"
    ELSE IF b.follicular_end < cycle_day_within_phase
            /\ cycle_day_within_phase <= b.ovulatory_end
    THEN "Follicular"
    ELSE "Luteal"

\* a classifier whose menstrual range leaves out its last day
ClassifyDay_MenstrualEndExcluded(cycle_day_within_phase, b) ==
    IF 1 <= cycle_day_within_phase /\ cycle_day_within_phase < b.menstrual_end
    THEN "Menstrual"
    ELSE IF b.menstrual_end < cycle_day_within_phase
            /\ cycle_day_within_phase <= b.follicular_end
    THEN "Follicular"
    ELSE IF b.follicular_end < cycle_day_within_phase
            /\ cycle_day_within_phase <= b.ovulatory_end
    THEN "Ovulatory"
    ELSE "Luteal"

\* lines 228-235
ClassifyDay(cycle_day_within_phase, b) ==
    IF 1 <= cycle_day_within_phase /\ cycle_day_within_phase <= b.menstrual_end
    THEN "Menstrual"
    ELSE IF b.menstrual_end < cycle_day_within_phase
            /\ cycle_day_within_phase <= b.follicular_end
    THEN "Follicular"
    ELSE IF b.follicular_end < cycle_day_within_phase
            /\ cycle_day_within_phase <= b.ovulatory_end
    THEN "Ovulatory"
    ELSE "Luteal"

\* ------------------------------------------------------------------ inputs
CycleSummary(startDate, periodLength, fertileWindowStart, lengthOfFertileWindow) ==
    [startDate |-> startDate, periodLength |-> periodLength,
     fertileWindowStart |-> fertileWindowStart,
     lengthOfFertileWindow |-> lengthOfFertileWindow]

\* the cycle summaries Garmin may return, in no chronological order
SummaryPool ==
    << CycleSummary(Some(<<2024, 2, 5>>), Some(8), None, None),
       CycleSummary(Some(<<2024, 1, 1>>), Some(5), None, None),
       CycleSummary(Some(<<2024, 3, 1>>), Some(5), Some(12), Some(6)),
       CycleSummary(Some(<<2024, 1, 10>>), Some(5), None, None),
       CycleSummary(None, Some(5), None, None),
       CycleSummary(Some(<<2025, 1, 1>>), Some(5), None, None),
       CycleSummary(Some(<<2024, 1, 10>>), Some(0), None, None),
       CycleSummary(Some(<<2024, 2, 20>>), Some(5), None, None),
       CycleSummary(Some(<<2024, 3, 1>>), None, None, None) >>

\* the dates of the user's hr_data rows
DatePool ==
    { <<2024, 1, 5>>, <<2024, 2, 2>>, <<2024, 2, 10>>, <<2024, 2, 20>>,
      <<2024, 3, 28>>, <<2025, 1, 1>>, <<2025, 1, 25>> }

\* the pool summaries at the positions I, in pool order
RECURSIVE Pick(_)
Pick(I) ==
    IF I = {} THEN <<>>
    ELSE LET first == CHOOSE p \in I : \A q \in I : p <= q
         IN  <<SummaryPool[first]>> \o Pick(I \ {first})

Reverse(s) == [p \in 1..Len(s) |-> s[Len(s) + 1 - p]]

\* lists of up to MaxCycles distinct summaries, in pool order or reversed
SummaryLists ==
    LET picks == { Pick(I) : I \in { J \in SUBSET (1..Len(SummaryPool)) :
                                        Cardinality(J) <= MaxCycles } }
    IN  picks \cup { Reverse(s) : s \in picks }

\* a dict is modelled by whether it has keys other than 'cycleSummaries'
\* and by the optional value under 'cycleSummaries'
MenstrualDataInputs ==
    { None,
      Some([other |-> FALSE, cycleSummaries |-> None]),
      Some([other |-> TRUE, cycleSummaries |-> None]) }
    \cup { Some([other |-> TRUE, cycleSummaries |-> Some(s)]) : s \in SummaryLists }

HrDataInputs == { D \in SUBSET DatePool : Cardinality(D) <= MaxDates }

\* bool(menstrual_data): None and the empty dict are falsy
TruthyDict(md) == md # None /\ (md[1].other \/ md[1].cycleSummaries # None)

\* 'YYYY-MM-DD' strings compare as their (year, month, day) do
DateStrLess(a, b) ==
    \/ a[1] < b[1]
    \/ a[1] = b[1] /\ a[2] < b[2]
    \/ a[1] = b[1] /\ a[2] = b[2] /\ a[3] < b[3]

\* .order('date', desc=False): the rows' dates in ascending string order
RECURSIVE OrderByDate(_)
OrderByDate(D) ==
    IF D = {} THEN <<>>
    ELSE LET first == CHOOSE d \in D : \A e \in D \ {d} : DateStrLess(d, e)
         IN  <<first>> \o OrderByDate(D \ {first})

ParseDates(strs) == [p \in 1..Len(strs) |-> strptime(strs[p])]

\* ------------------------------------------------------------------- state
VARIABLES
    menstrual_data,         \* argument: the Garmin menstrual calendar data
    hr_data,                \* dates of the user's rows in table hr_data
    menstrual_phases,       \* rows of table menstrual_phases
    pc,                     \* position in predict_menstrual_phases
    result,                 \* "pending", "None" (returned) or the exception raised
    dates,                  \* parsed target dates
    cycle_starts, period_lengths, fertile_windows,
    estimated_cycle_length,
    cycle_start_indices,
    i,                      \* 1-based position of the Step 5 loop
    cycles,                 \* the Step 5 locals of each iteration done so far
    predictions,
    k,                      \* 1-based position of the Step 6 loop
    existing,               \* rows found by the select of the current Step 6 iteration
    runs,                   \* Step 6 of further invocations for the same user
    started,                \* number of those invocations started so far
    stored                  \* the predictions they wrote, in the order of the writes

vars == <<menstrual_data, hr_data, menstrual_phases, pc, result, dates, cycle_starts,
          period_lengths, fertile_windows, estimated_cycle_length,
          cycle_start_indices, i, cycles, predictions, k, existing,
          runs, started, stored>>

inputs == <<menstrual_data, hr_data>>
parsed == <<cycle_starts, period_lengths, fertile_windows>>
step5 == <<i, cycles, predictions>>
step6 == <<menstrual_phases, k, existing>>
store_vars == <<runs, started, stored>>

RunIds == 1..2

\* an invocation that is not in its Step 6
IdleRun == [pc |-> "idle", predictions |-> <<>>, k |-> 1, existing |-> {}]

Init ==
    /\ menstrual_data \in MenstrualDataInputs
    /\ hr_data \in HrDataInputs
    /\ menstrual_phases = <<>>
    /\ pc = "fetch"
    /\ result = "pending"
    /\ dates = <<>>
    /\ cycle_starts = <<>>
    /\ period_lengths = <<>>
    /\ fertile_windows = <<>>
    /\ estimated_cycle_length = 0
    /\ cycle_start_indices = <<>>
    /\ i = 1
    /\ cycles = <<>>
    /\ predictions = <<>>
    /\ k = 1
    /\ existing = {}
    /\ runs = [r \in RunIds |-> IdleRun]
    /\ started = 0
    /\ stored = <<>>

\* every early return of the function: print, then return None
Return ==
    /\ pc' = "done"
    /\ result' = "None"

\* lines 70-83: read the user's hr_data dates in ascending order
FetchDates ==
    /\ pc = "fetch"
    /\ IF hr_data = {}
       THEN Return /\ UNCHANGED dates
       ELSE /\ dates' = ParseDates(OrderByDate(hr_data))
            /\ pc' = "parse"
            /\ UNCHANGED result
    /\ UNCHANGED <<store_vars, inputs, parsed, estimated_cycle_length, cycle_start_indices,
                   step5, step6>>

\* lines 85-116: extract the valid cycle starts
ExtractCycles ==
    /\ pc = "parse"
    /\ IF ~TruthyDict(menstrual_data)
       THEN Return /\ UNCHANGED parsed
       ELSE LET cycle_summaries ==
                    IF menstrual_data[1].cycleSummaries # None
                    THEN menstrual_data[1].cycleSummaries[1] ELSE <<>>
                acc == ParseCycles(cycle_summaries, EmptyParse)
            IN  IF cycle_summaries = <<>>
                THEN Return /\ UNCHANGED parsed
                ELSE /\ cycle_starts' = acc.cycle_starts
                     /\ period_lengths' = acc.period_lengths
                     /\ fertile_windows' = acc.fertile_windows
                     /\ IF acc.cycle_starts = <<>>
                        THEN Return
                        ELSE pc' = "filter" /\ UNCHANGED result
    /\ UNCHANGED <<store_vars, inputs, dates, estimated_cycle_length, cycle_start_indices,
                   step5, step6>>

\* lines 118-133: sort and filter the cycle starts
FilterCycleStarts ==
    /\ pc = "filter"
    /\ cycle_starts' = Normalize(cycle_starts)
    /\ pc' = "estimate"
    /\ UNCHANGED <<store_vars, inputs, result, dates, period_lengths, fertile_windows,
                   estimated_cycle_length, cycle_start_indices, step5, step6>>

\* lines 136-147
EstimateLength ==
    /\ pc = "estimate"
    /\ estimated_cycle_length' = EstimateCycleLength(cycle_starts)
    /\ pc' = "map"
    /\ UNCHANGED <<store_vars, inputs, result, dates, parsed, cycle_start_indices, step5, step6>>

\* lines 149-160
MapCycleStarts ==
    /\ pc = "map"
    /\ cycle_start_indices' = MapStarts(cycle_starts, dates, 1)
    /\ IF cycle_start_indices' = <<>>
       THEN Return
       ELSE pc' = "predict" /\ UNCHANGED result
    /\ UNCHANGED <<store_vars, inputs, dates, parsed, estimated_cycle_length, step5, step6>>

\* lines 164-224: the locals of the Step 5 iteration for one date
CycleOf(date) ==
    LET g == GoverningCycle(date, cycle_starts, cycle_start_indices,
                            estimated_cycle_length)
        current_cycle_length ==
            CurrentCycleLength(g.cycle_start, g.cycle_start_idx, cycle_start_indices,
                               dates, estimated_cycle_length)
        menstrual_duration == DictGet(period_lengths, g.cycle_start, DefaultPeriodLength)
        hint == IF g.cycle_start \in DOMAIN fertile_windows
                THEN Some(fertile_windows[g.cycle_start]) ELSE None
        b == PhaseBoundaries(menstrual_duration, current_cycle_length, hint)
    IN  [date |-> date,
         cycle_start |-> g.cycle_start,
         cycle_start_idx |-> g.cycle_start_idx,
         cycle_day |-> (date - g.cycle_start) + 1,
         current_cycle_length |-> current_cycle_length,
         menstrual_end |-> b.menstrual_end,
         follicular_end |-> b.follicular_end,
         ovulatory_end |-> b.ovulatory_end,
         luteal_end |-> b.luteal_end]

\* lines 226-243: the prediction built from the locals
PredictionOf(c) ==
    LET cycle_day_within_phase == WrapCycleDay(c.cycle_day, c.current_cycle_length)
    IN  [user_id |-> user_id,
         date |-> strftime(c.date),
         start_date |-> strftime(c.cycle_start),
         predicted_phase |-> ClassifyDay(cycle_day_within_phase, c),
         cycle_day |-> cycle_day_within_phase]

\* lines 164-243: one iteration of Step 5; the modulo of line 227 raises
\* ZeroDivisionError when the cycle length is 0, which ends the function
PredictDate ==
    /\ pc = "predict"
    /\ LET c == CycleOf(dates[i])
       IN  /\ cycles' = Append(cycles, c)
           /\ IF c.current_cycle_length = 0
              THEN /\ pc' = "done"
                   /\ result' = "ZeroDivisionError"
                   /\ UNCHANGED <<i, predictions>>
              ELSE /\ predictions' = Append(predictions, PredictionOf(c))
                   /\ i' = i + 1
                   /\ pc' = IF i = Len(dates) THEN "select" ELSE "predict"
                   /\ UNCHANGED result
    /\ UNCHANGED <<store_vars, inputs, dates, parsed, estimated_cycle_length, cycle_start_indices,
                   step6>>

\* the positions of the rows with the prediction's user_id and date
Matching(table, prediction) ==
    { r \in 1..Len(table) : /\ table[r].user_id = prediction.user_id
                            /\ table[r].date = prediction.date }

\* lines 248-252: select the rows stored for the prediction's key
SelectExisting ==
    /\ pc = "select"
    /\ existing' = Matching(menstrual_phases, predictions[k])
    /\ pc' = "write"
    /\ UNCHANGED <<store_vars, inputs, result, dates, parsed, estimated_cycle_length,
                   cycle_start_indices, step5, menstrual_phases, k>>

\* an upsert that never looks at what the select found
Upsert_AlwaysInsert(table, found, prediction) ==
    Append(table, prediction)

\* lines 254-269: update the rows stored for the prediction's key when the
\* select found any, else insert the prediction
Upsert(table, found, prediction) ==
    IF found # {}
    THEN [r \in 1..Len(table) |->
            IF r \in Matching(table, prediction)
            THEN [table[r] EXCEPT
                    !.start_date = prediction.start_date,
                    !.predicted_phase = prediction.predicted_phase,
                    !.cycle_day = prediction.cycle_day]
            ELSE table[r]]
    ELSE Append(table, prediction)

\* lines 254-274: update the stored rows, or insert the prediction
WritePrediction ==
    /\ pc = "write"
    /\ menstrual_phases' = Upsert(menstrual_phases, existing, predictions[k])
    /\ k' = k + 1
    /\ IF k = Len(predictions)
       THEN Return
       ELSE pc' = "select" /\ UNCHANGED result
    /\ UNCHANGED <<store_vars, inputs, dates, parsed, estimated_cycle_length,
                   cycle_start_indices, step5, existing>>

Next ==
    \/ FetchDates
    \/ ExtractCycles
    \/ FilterCycleStarts
    \/ EstimateLength
    \/ MapCycleStarts
    \/ PredictDate
    \/ SelectExisting
    \/ WritePrediction

Spec == Init /\ [][Next]_vars

\* ===================================================================
\* Properties
\* ===================================================================
Day(s) == strptime(s)

\* the summaries of the input, [] when there are none
SummariesOf(md) ==
    IF md # None /\ md[1].cycleSummaries # None THEN md[1].cycleSummaries[1] ELSE <<>>

\* the starts of the input records that carry both startDate and periodLength
ValidStartSet ==
    LET cs == SummariesOf(menstrual_data)
    IN  { Day(cs[p].startDate[1]) :
            p \in { q \in 1..Len(cs) : cs[q].startDate # None /\ cs[q].periodLength # None } }

\* the normalized history has been built
HistoryReady == pc \notin {"fetch", "parse", "filter"} /\ cycle_starts # <<>>

\* the estimate has been computed
EstimateReady == HistoryReady /\ pc # "estimate"

SetMax(S) == CHOOSE x \in S : \A y \in S : y <= x

\* C1: every segmented cycle has 0 < menstrual_end < follicular_end <
\* ovulatory_end <= luteal_end and luteal_end = cycle length, so that the four
\* day ranges partition [1, cycle length]
C1_PartitionInvariant ==
    \A j \in 1..Len(cycles) :
        LET c == cycles[j]
        IN  /\ 0 < c.menstrual_end
            /\ c.menstrual_end < c.follicular_end
            /\ c.follicular_end < c.ovulatory_end
            /\ c.ovulatory_end <= c.luteal_end
            /\ c.luteal_end = c.current_cycle_length

\* C2: with a non-empty normalized history and a non-empty date list the
\* function ends with exactly one prediction per target date, in the order of
\* the dates, dates before the earliest start included
C2_OnePredictionPerDate ==
    (pc = "done" /\ cycle_starts # <<>> /\ dates # <<>>) =>
        /\ Len(predictions) = Len(dates)
        /\ \A j \in 1..Len(dates) : predictions[j].date = strftime(dates[j])

\* the first recorded start after the start s, if any
LaterStarts(s) == { cycle_starts[p] : p \in { q \in 1..Len(cycle_starts) : cycle_starts[q] > s } }

\* C3: the cycle length used for a date is the gap from the governing start
\* to the next recorded start when there is one, else the estimate; it does
\* not depend on the dates of the batch
C3_CycleLengthIsGapToNextStart ==
    \A j \in 1..Len(cycles) :
        LET c == cycles[j]
            later == LaterStarts(c.cycle_start)
        IN  c.current_cycle_length =
                IF later # {}
                THEN (CHOOSE t \in later : \A u \in later : t <= u) - c.cycle_start
                ELSE estimated_cycle_length

\* C4: the normalized starts are strictly increasing and consecutive starts
\* are at least 15 days apart
C4_NormalizedSpacing ==
    HistoryReady =>
        \A p \in 1..(Len(cycle_starts) - 1) :
            /\ cycle_starts[p] < cycle_starts[p + 1]
            /\ cycle_starts[p + 1] - cycle_starts[p] >= 15

\* a history normalized from three valid records in which a kept start was
\* replaced by a close later one and a start was appended
C4_Witness ==
    /\ pc = "estimate"
    /\ Len(cycle_starts) = 2
    /\ Cardinality(ValidStartSet) = 3
    /\ Len(SummariesOf(menstrual_data)) = 3

\* C5: a start fewer than 15 days after the last kept one replaces it, one 15
\* or more days after it is appended: every dropped start has a later valid
\* start fewer than 15 days after it, every kept start is a valid start, the
\* latest valid start is the last entry, and starts 2024-01-01, 2024-01-10,
\* 2024-02-05 normalize to 2024-01-10, 2024-02-05
C5_LaterStartWins ==
    HistoryReady =>
        LET kept == { cycle_starts[p] : p \in 1..Len(cycle_starts) }
        IN  /\ kept \subseteq ValidStartSet
            /\ cycle_starts[Len(cycle_starts)] = SetMax(ValidStartSet)
            /\ \A s \in ValidStartSet \ kept :
                   \E t \in ValidStartSet : s < t /\ t - s < 15
            /\ \A s \in ValidStartSet :
                   (\A t \in ValidStartSet : t # s => (t - s >= 15 \/ s - t >= 15))
                       => s \in kept
            /\ (ValidStartSet = {Day(<<2024, 1, 1>>), Day(<<2024, 1, 10>>), Day(<<2024, 2, 5>>)}
                  => cycle_starts = <<Day(<<2024, 1, 10>>), Day(<<2024, 2, 5>>)>>)

\* the example of C5 has been normalized
C5_Witness ==
    /\ pc = "estimate"
    /\ ValidStartSet = {Day(<<2024, 1, 1>>), Day(<<2024, 1, 10>>), Day(<<2024, 2, 5>>)}
    /\ cycle_starts = <<Day(<<2024, 1, 10>>), Day(<<2024, 2, 5>>)>>

\* the positions p whose gap to the next normalized start lies in [15, 45]
QualifyingGaps ==
    { p \in 1..(Len(cycle_starts) - 1) :
        /\ cycle_starts[p + 1] - cycle_starts[p] >= 15
        /\ cycle_starts[p + 1] - cycle_starts[p] <= 45 }

RECURSIVE GapTotal(_)
GapTotal(P) ==
    IF P = {} THEN 0
    ELSE LET p == CHOOSE q \in P : TRUE
         IN  (cycle_starts[p + 1] - cycle_starts[p]) + GapTotal(P \ {p})

\* C6: the estimate is the truncated mean of the gaps in [15, 45] between
\* consecutive normalized starts, and 28 when no gap qualifies
C6_EstimateIsTruncatedMean ==
    EstimateReady =>
        LET n == Cardinality(QualifyingGaps)
            total == GapTotal(QualifyingGaps)
        IN  /\ n = 0 => estimated_cycle_length = 28
            /\ n > 0 => /\ estimated_cycle_length * n <= total
                        /\ total < (estimated_cycle_length + 1) * n
            /\ Len(cycle_starts) = 1 => estimated_cycle_length = 28

\* two qualifying gaps, 26 and 25 days, whose mean 25.5 is truncated to 25
C6_Witness ==
    /\ pc = "map"
    /\ cycle_starts = <<Day(<<2024, 1, 10>>), Day(<<2024, 2, 5>>), Day(<<2024, 3, 1>>)>>
    /\ estimated_cycle_length = 25

\* C7: every prediction's cycle_day lies in [1, cycle length]: it is
\* ((date - cycle_start) + 1) mod cycle length, a zero remainder being
\* reported as the cycle length
C7_CycleDayInRange ==
    \A j \in 1..Len(predictions) :
        LET L == cycles[j].current_cycle_length
            r == ((cycles[j].date - cycles[j].cycle_start) + 1) % L
        IN  /\ predictions[j].cycle_day >= 1
            /\ predictions[j].cycle_day <= L
            /\ r # 0 => predictions[j].cycle_day = r
            /\ r = 0 => predictions[j].cycle_day = L

\* a prediction on the last day of its cycle: the remainder is zero
C7_Witness ==
    \E j \in 1..Len(predictions) :
        /\ cycles[j].cycle_day % cycles[j].current_cycle_length = 0
        /\ predictions[j].cycle_day = cycles[j].current_cycle_length

\* C8: the prediction of a date before the first recorded start reports the
\* synthetic start first_start - (floor(days_before_first / estimate) + 1) *
\* estimate; with the history starting 2024-03-01, estimate 28 and date
\* 2024-02-10 it reports start_date 2024-02-02 and cycle_day 9
C8_BackwardProjection ==
    \A j \in 1..Len(predictions) :
        dates[j] < cycle_starts[1] =>
            /\ predictions[j].start_date =
                 strftime(cycle_starts[1]
                          - (((cycle_starts[1] - dates[j]) \div estimated_cycle_length) + 1)
                            * estimated_cycle_length)
            /\ (/\ cycle_starts[1] = Day(<<2024, 3, 1>>)
                /\ estimated_cycle_length = 28
                /\ predictions[j].date = <<2024, 2, 10>>)
                 => /\ predictions[j].start_date = <<2024, 2, 2>>
                    /\ predictions[j].cycle_day = 9

\* the example of C8 has been predicted
C8_Witness ==
    \E j \in 1..Len(predictions) :
        /\ cycle_starts[1] = Day(<<2024, 3, 1>>)
        /\ estimated_cycle_length = 28
        /\ predictions[j].date = <<2024, 2, 10>>
        /\ predictions[j].start_date = <<2024, 2, 2>>
        /\ predictions[j].cycle_day = 9

\* C9: in every segmented cycle the luteal phase, the days after
\* ovulatory_end up to the cycle length, is 10 to 16 days long
C9_LutealLength ==
    \A j \in 1..Len(cycles) :
        /\ cycles[j].current_cycle_length - cycles[j].ovulatory_end >= 10
        /\ cycles[j].current_cycle_length - cycles[j].ovulatory_end <= 16

\* no input record carries both startDate and periodLength
NoValidRecord ==
    \A p \in 1..Len(SummariesOf(menstrual_data)) :
        \/ SummariesOf(menstrual_data)[p].startDate = None
        \/ SummariesOf(menstrual_data)[p].periodLength = None

\* the outcome of a run that predicted and stored every date
SuccessOutcome == "None"

\* C10: a run over a user's dates whose menstrual data has no record with
\* both startDate and periodLength produces and stores no prediction and ends
\* with an outcome that differs from that of a successful run
C10_NoCycleDataSurfaced ==
    (pc = "done" /\ dates # <<>> /\ menstrual_data # None /\ NoValidRecord) =>
        /\ predictions = <<>>
        /\ menstrual_phases = <<>>
        /\ result # SuccessOutcome

\* ------------------------------------------------------------------
\* lines 81-243 as a function of the summaries and the hr_data dates: the
\* predictions the function has built when it ends
CycleIn(date, h) ==
    LET g == GoverningCycle(date, h.cycle_starts, h.cycle_start_indices,
                            h.estimated_cycle_length)
        current_cycle_length ==
            CurrentCycleLength(g.cycle_start, g.cycle_start_idx, h.cycle_start_indices,
                               h.dates, h.estimated_cycle_length)
        menstrual_duration == DictGet(h.period_lengths, g.cycle_start, DefaultPeriodLength)
        hint == IF g.cycle_start \in DOMAIN h.fertile_windows
                THEN Some(h.fertile_windows[g.cycle_start]) ELSE None
        b == PhaseBoundaries(menstrual_duration, current_cycle_length, hint)
    IN  [date |-> date,
         cycle_start |-> g.cycle_start,
         cycle_start_idx |-> g.cycle_start_idx,
         cycle_day |-> (date - g.cycle_start) + 1,
         current_cycle_length |-> current_cycle_length,
         menstrual_end |-> b.menstrual_end,
         follicular_end |-> b.follicular_end,
         ovulatory_end |-> b.ovulatory_end,
         luteal_end |-> b.luteal_end]

RECURSIVE PredictAll(_, _)
PredictAll(h, j) ==
    IF j > Len(h.dates) THEN <<>>
    ELSE LET c == CycleIn(h.dates[j], h)
         IN  IF c.current_cycle_length = 0 THEN <<>>
             ELSE <<PredictionOf(c)>> \o PredictAll(h, j + 1)

HistoryFor(summaries) ==
    LET acc == ParseCycles(summaries, EmptyParse)
    IN  IF acc.cycle_starts = <<>> THEN <<>> ELSE Normalize(acc.cycle_starts)

PredictionsFor(summaries, D) ==
    LET acc == ParseCycles(summaries, EmptyParse)
        ds == ParseDates(OrderByDate(D))
        starts == HistoryFor(summaries)
        indices == MapStarts(starts, ds, 1)
    IN  IF D = {} \/ starts = <<>> \/ indices = <<>> THEN <<>>
        ELSE PredictAll([cycle_starts |-> starts,
                         cycle_start_indices |-> indices,
                         dates |-> ds,
                         estimated_cycle_length |-> EstimateCycleLength(starts),
                         period_lengths |-> acc.period_lengths,
                         fertile_windows |-> acc.fertile_windows], 1)

\* a record that lacks startDate or periodLength
IsIncomplete(cycle) == cycle.startDate = None \/ cycle.periodLength = None

RECURSIVE WithoutIncomplete(_)
WithoutIncomplete(summaries) ==
    IF summaries = <<>> THEN <<>>
    ELSE (IF IsIncomplete(Head(summaries)) THEN <<>> ELSE <<Head(summaries)>>)
         \o WithoutIncomplete(Tail(summaries))

\* C11: a record without startDate or periodLength is skipped and the batch
\* goes on: the normalized history and the predictions are those of the input
\* without such records, and a record with periodLength 0 is kept (its start
\* is parsed with period length 0 unless a later record overwrites it)
C11_IncompleteRecordsSkipped ==
    LET cs == SummariesOf(menstrual_data)
        complete == WithoutIncomplete(cs)
    IN  /\ HistoryReady => cycle_starts = HistoryFor(complete)
        /\ pc = "done" => predictions = PredictionsFor(complete, hr_data)
        /\ (pc \notin {"fetch", "parse"} /\ dates # <<>>) =>
              \A p \in 1..Len(cs) :
                 (cs[p].startDate # None /\ cs[p].periodLength = Some(0)) =>
                    /\ Day(cs[p].startDate[1]) \in DOMAIN period_lengths
                    /\ (\A q \in (p + 1)..Len(cs) :
                           IsIncomplete(cs[q]) \/ cs[q].startDate # cs[p].startDate)
                         => period_lengths[Day(cs[p].startDate[1])] = 0

\* a finished batch with predictions whose input held an incomplete record
\* and a record with periodLength 0
C11_Witness ==
    LET cs == SummariesOf(menstrual_data)
    IN  /\ pc = "done"
        /\ predictions # <<>>
        /\ \E p \in 1..Len(cs) : IsIncomplete(cs[p])
        /\ \E p \in 1..Len(cs) : ~IsIncomplete(cs[p]) /\ cs[p].periodLength = Some(0)
        /\ \E d \in DOMAIN period_lengths : period_lengths[d] = 0

\* ===================================================================
\* Step 6 of several invocations for one user on one stored table
\* ===================================================================
main_vars == <<inputs, pc, result, dates, parsed, estimated_cycle_length,
               cycle_start_indices, step5, k, existing>>

\* a row the table can hold before the invocations start
StoredRow(u, d) ==
    [user_id |-> u, date |-> d, start_date |-> <<2023, 12, 1>>,
     predicted_phase |-> "Luteal", cycle_day |-> 20]

\* tables with at most one row per (user_id, date)
StoreTables ==
    { <<>>,
      <<StoredRow(user_id, <<2024, 2, 2>>)>>,
      <<StoredRow("u2", <<2024, 2, 2>>)>>,
      <<StoredRow("u2", <<2024, 2, 10>>), StoredRow(user_id, <<2024, 2, 10>>)>> }

\* the predictions list an invocation brings to its Step 6: Steps 1-5 over a
\* one-record history and one or two target dates
Batches ==
    { PredictionsFor(<<SummaryPool[q]>>, D) :
        q \in {2, 4},
        D \in (SUBSET { <<2024, 2, 2>>, <<2024, 2, 10>> }) \ {{}} }

InitStore ==
    /\ menstrual_data = None
    /\ hr_data = {}
    /\ menstrual_phases \in StoreTables
    /\ pc = "done"
    /\ result = "None"
    /\ dates = <<>>
    /\ cycle_starts = <<>>
    /\ period_lengths = <<>>
    /\ fertile_windows = <<>>
    /\ estimated_cycle_length = 0
    /\ cycle_start_indices = <<>>
    /\ i = 1
    /\ cycles = <<>>
    /\ predictions = <<>>
    /\ k = 1
    /\ existing = {}
    /\ runs = [r \in RunIds |-> IdleRun]
    /\ started = 0
    /\ stored = <<>>

AllIdle == \A r \in RunIds : runs[r].pc = "idle"

\* line 246: an invocation reaches the loop of Step 6 with its predictions
StartRun(r) ==
    /\ runs[r].pc = "idle"
    /\ started < MaxRuns
    /\ \E batch \in Batches :
          runs' = [runs EXCEPT ![r] = [pc |-> "select", predictions |-> batch,
                                       k |-> 1, existing |-> {}]]
    /\ started' = started + 1
    /\ UNCHANGED <<main_vars, menstrual_phases, stored>>

\* an invocation that starts while no other one is inside Step 6
StartRunAlone(r) ==
    /\ AllIdle
    /\ StartRun(r)

\* lines 248-252: the select of invocation r
RunSelect(r) ==
    /\ runs[r].pc = "select"
    /\ runs' = [runs EXCEPT
                  ![r].existing = Matching(menstrual_phases, runs[r].predictions[runs[r].k]),
                  ![r].pc = "write"]
    /\ UNCHANGED <<main_vars, menstrual_phases, started, stored>>

\* lines 254-274: the update or insert of invocation r, then the next
\* prediction or the end of the loop
RunWrite(r) ==
    /\ runs[r].pc = "write"
    /\ LET prediction == runs[r].predictions[runs[r].k]
       IN  /\ menstrual_phases' = Upsert(menstrual_phases, runs[r].existing, prediction)
           /\ stored' = Append(stored, prediction)
    /\ runs' = [runs EXCEPT ![r] =
                  IF runs[r].k = Len(runs[r].predictions)
                  THEN IdleRun
                  ELSE [runs[r] EXCEPT !.k = runs[r].k + 1, !.pc = "select",
                                       !.existing = {}]]
    /\ UNCHANGED <<main_vars, started>>

\* invocations one after the other
NextSequential ==
    \E r \in RunIds :
       \/ StartRunAlone(r)
       \/ RunSelect(r)
       \/ RunWrite(r)

SpecSequential == InitStore /\ [][NextSequential]_vars

\* invocations of separate processes, whose selects and writes interleave
NextConcurrent ==
    \E r \in RunIds :
       \/ StartRun(r)
       \/ RunSelect(r)
       \/ RunWrite(r)

SpecConcurrent == InitStore /\ [][NextConcurrent]_vars

\* at most one row per (user_id, date)
UniqueKeys(table) ==
    \A r1, r2 \in 1..Len(table) :
       (table[r1].user_id = table[r2].user_id /\ table[r1].date = table[r2].date)
          => r1 = r2

\* the position in stored of the last write for date d
LastWrite(d) ==
    CHOOSE j \in 1..Len(stored) :
       /\ stored[j].date = d
       /\ \A j2 \in (j + 1)..Len(stored) : stored[j2].date # d

\* C12: with the invocations one after the other and a table that starts
\* with at most one row per (user_id, date), the table keeps at most one row
\* per (user_id, date), the row of every written date holds the start_date,
\* predicted_phase and cycle_day written last, and rows of other keys are
\* the ones the table started with
C12_SequentialUpsert ==
    /\ UniqueKeys(menstrual_phases)
    /\ \A j \in 1..Len(stored) :
          LET last == stored[LastWrite(stored[j].date)]
          IN  \E r \in 1..Len(menstrual_phases) :
                 /\ menstrual_phases[r].user_id = user_id
                 /\ menstrual_phases[r].date = last.date
                 /\ menstrual_phases[r].start_date = last.start_date
                 /\ menstrual_phases[r].predicted_phase = last.predicted_phase
                 /\ menstrual_phases[r].cycle_day = last.cycle_day
    /\ \A r \in 1..Len(menstrual_phases) :
          \/ menstrual_phases[r].user_id = user_id
             /\ \E j \in 1..Len(stored) : stored[j].date = menstrual_phases[r].date
          \/ \E t \in StoreTables : \E q \in 1..Len(t) : t[q] = menstrual_phases[r]

\* two invocations have finished: the second one updated in place a row the
\* first one wrote with other values, and a row was inserted next to a row
\* of another user
C12_Witness ==
    /\ AllIdle
    /\ started >= 2
    /\ \E j1, j2 \in 1..Len(stored) :
          /\ j1 < j2
          /\ stored[j1].date = stored[j2].date
          /\ stored[j1].cycle_day # stored[j2].cycle_day
    /\ \E r \in 1..Len(menstrual_phases) : menstrual_phases[r].user_id # user_id
    /\ Len(menstrual_phases) >= 3

\* C16: with the selects and writes of two invocations interleaving, the
\* table never holds two rows for the same (user_id, date)
C16_NoDuplicateUnderOverlap ==
    UniqueKeys(menstrual_phases)

\* day d lies in the range [lo, hi]
InRange(lo, hi, d) == lo <= d /\ d <= hi

\* exactly one of the four ranges of cycle c contains day d, and phase is
\* the phase of that range
OneRange(c, d, phase) ==
    LET inM == InRange(1, c.menstrual_end, d)
        inF == InRange(c.menstrual_end + 1, c.follicular_end, d)
        inO == InRange(c.follicular_end + 1, c.ovulatory_end, d)
        inL == InRange(c.ovulatory_end + 1, c.luteal_end, d)
    IN  /\ inM \/ inF \/ inO \/ inL
        /\ ~(inM /\ inF) /\ ~(inM /\ inO) /\ ~(inM /\ inL)
        /\ ~(inF /\ inO) /\ ~(inF /\ inL) /\ ~(inO /\ inL)
        /\ inM => phase = "Menstrual"
        /\ inF => phase = "Follicular"
        /\ inO => phase = "Ovulatory"
        /\ inL => phase = "Luteal"

\* the position of the cycle that the latest iteration of Step 5 computed,
\* in the state that follows the iteration (the loop goes on, Step 6 begins,
\* or the function has raised); every cycle of a batch is the newest one in
\* such a state
NewestCycle ==
    IF cycles # <<>> /\ (pc = "predict" \/ (pc \in {"select", "done"} /\ k = 1))
    THEN {Len(cycles)} ELSE {}

\* C14: for every cycle the loop computes and every day d of
\* 1..cycle length, exactly one of the four ranges contains d and the
\* classifier gives d the phase of that range; the stored phase of each
\* prediction is the phase of the range that holds its cycle_day
C14_OneRangePerDay ==
    /\ \A j \in NewestCycle :
          \A d \in 1..cycles[j].current_cycle_length :
             OneRange(cycles[j], d, ClassifyDay(d, cycles[j]))
    /\ \A j \in 1..Len(predictions) :
          OneRange(cycles[j], predictions[j].cycle_day, predictions[j].predicted_phase)

\* a finished batch with a cycle whose four ranges are all non-empty
C14_Witness ==
    /\ pc = "done"
    /\ \E j \in 1..Len(predictions) :
          /\ cycles[j].menstrual_end >= 1
          /\ cycles[j].menstrual_end < cycles[j].follicular_end
          /\ cycles[j].follicular_end < cycles[j].ovulatory_end
          /\ cycles[j].ovulatory_end < cycles[j].luteal_end
          /\ cycles[j].luteal_end = cycles[j].current_cycle_length

C17_HintedWindowIsOvulatory ==
    \A j \in NewestCycle :
       LET c == cycles[j]
       IN  c.cycle_start \in DOMAIN fertile_windows =>
              LET fertile_start == fertile_windows[c.cycle_start][1]
                  fertile_length == fertile_windows[c.cycle_start][2]
              IN  (/\ fertile_start > c.menstrual_end
                   /\ fertile_start + fertile_length - 1 <= c.current_cycle_length)
                    => \A d \in 1..c.current_cycle_length :
                          ClassifyDay(d, c) = "Ovulatory"
                             <=> InRange(fertile_start,
                                         fertile_start + fertile_length - 1, d)

\* the place of a phase in the order Menstrual, Follicular, Ovulatory, Luteal
PhaseRank(phase) ==
    CASE phase = "Menstrual" -> 1
      [] phase = "Follicular" -> 2
      [] phase = "Ovulatory" -> 3
      [] phase = "Luteal" -> 4

\* C18: within one cycle the phase never moves backward as the day advances
\* from 1 to the cycle length: the classifier gives day d + 1 a phase that is
\* not earlier than the phase of day d, and of two predictions of a batch
\* that lie in the same cycle, within its length, the later date has no
\* earlier phase
C18_PhaseNeverMovesBackward ==
    /\ \A j \in NewestCycle :
          \A d \in 1..(cycles[j].current_cycle_length - 1) :
             PhaseRank(ClassifyDay(d, cycles[j]))
                <= PhaseRank(ClassifyDay(d + 1, cycles[j]))
    /\ \A j1, j2 \in 1..Len(predictions) :
          (/\ j1 < j2
           /\ cycles[j1].cycle_start = cycles[j2].cycle_start
           /\ cycles[j1].cycle_day <= cycles[j1].current_cycle_length
           /\ cycles[j2].cycle_day <= cycles[j2].current_cycle_length)
            => PhaseRank(predictions[j1].predicted_phase)
                  <= PhaseRank(predictions[j2].predicted_phase)

\* a finished batch with two dates of one cycle in different phases
C18_Witness ==
    /\ pc = "done"
    /\ \E j1, j2 \in 1..Len(predictions) :
          /\ j1 < j2
          /\ cycles[j1].cycle_start = cycles[j2].cycle_start
          /\ cycles[j1].cycle_day >= 1
          /\ cycles[j2].cycle_day <= cycles[j2].current_cycle_length
          /\ PhaseRank(predictions[j1].predicted_phase)
                < PhaseRank(predictions[j2].predicted_phase)

\* C19: for a date before the first recorded start the reported start_date
\* governs the date: start_date <= date < start_date + estimated length and
\* cycle_day = (date - start_date) + 1; a date a whole number of estimated
\* lengths before the first recorded start is day 1 of a cycle that starts
\* on that date
C19_SyntheticStartGoverns ==
    \A j \in 1..Len(predictions) :
       dates[j] < cycle_starts[1] =>
          LET start_date == strptime(predictions[j].start_date)
          IN  /\ start_date <= dates[j]
              /\ dates[j] < start_date + estimated_cycle_length
              /\ predictions[j].cycle_day = (dates[j] - start_date) + 1
              /\ (cycle_starts[1] - dates[j]) % estimated_cycle_length = 0 =>
                    /\ start_date = dates[j]
                    /\ predictions[j].cycle_day = 1

\* C20: the cycle length computed for a date is at least 1 where line 227
\* uses it as the modulus, and the batch never ends with a division by zero
C20_CycleLengthPositive ==
    /\ \A j \in 1..Len(cycles) : cycles[j].current_cycle_length >= 1
    /\ result # "ZeroDivisionError"

====
